---- MODULE Spec2Model ----
(***************************************************************************)
(* A model of data_api.py, the YouTube Data Extractor API: the URL         *)
(* resolver extract_video_id and the request handlers built on it.         *)
(*                                                                         *)
(* Python strings that the regular expressions read are sequences of       *)
(* one-character strings; texts that are only joined or copied are TLA+    *)
(* strings.  Python values that may be None are tagged records (PyNone,    *)
(* PyStr, PyList, PyInt, PyBool); a dict is a function whose DOMAIN is the *)
(* set of keys it holds.                                                   *)
(***************************************************************************)
EXTENDS Integers, Sequences, FiniteSets, TLC

VARIABLES
    pc,        \* "idle", "received" (routed, handler not yet run), "responded";
               \* "resolved" in the resolver's own specification
    request,   \* the request in hand: its operation and query parameters
    video_id,  \* the handler's video_id = extract_video_id(url)
    response,  \* what the handler returned or raised
    calls      \* the collaborator invocations of this request, in order, each
               \* with its outcome

vars == <<pc, request, video_id, response, calls>>

(***************************************************************************)
(* Bounds of the model.                                                    *)
(***************************************************************************)
\* Most pieces concatenated into one free-form url.
MaxParts == 3
\* Most segments in a transcript the collaborator returns.
MaxSegments == 2
\* Most raw comments (and playlist entries) the collaborator returns.
MaxRaw == 3
\* max_comments and limit range over -MaxNeg .. MaxCount.
MaxCount == 2
MaxNeg == 2

(***************************************************************************)
(* Python values.                                                          *)
(***************************************************************************)
PyNone == [py |-> "None"]
PyStr(s) == [py |-> "str", val |-> s]
PyInt(n) == [py |-> "int", val |-> n]
PyBool(b) == [py |-> "bool", val |-> b]
PyList(s) == [py |-> "list", val |-> s]

\* Python truth value of a value that is None or a string ("if not video_id",
\* "if lang"): None and the empty string are false.
Truthy(v) == v.py = "str" /\ Len(v.val) > 0

\* dict.get(key) and dict.get(key, default): the stored value when the key is
\* present (a stored None included), the default only when the key is absent.
Get(d, key, default) == IF key \in DOMAIN d THEN d[key] ELSE default

\* seq[:n] of Python: the first n items for n >= 0, all but the last -n items
\* for n < 0.
SliceTo(s, n) ==
    IF n >= 0
    THEN SubSeq(s, 1, IF n < Len(s) THEN n ELSE Len(s))
    ELSE SubSeq(s, 1, Len(s) + n)

(***************************************************************************)
(* Characters and literals of the URL patterns.                            *)
(***************************************************************************)
\* The character class [0-9A-Za-z_-].
IdChars ==
    {"0", "1", "2", "3", "4", "5", "6", "7", "8", "9", "A", "B", "C", "D", "E", "F",
     "G", "H", "I", "J", "K", "L", "M", "N", "O", "P", "Q", "R", "S", "T", "U", "V",
     "W", "X", "Y", "Z", "a", "b", "c", "d", "e", "f", "g", "h", "i", "j", "k", "l",
     "m", "n", "o", "p", "q", "r", "s", "t", "u", "v", "w", "x", "y", "z", "_", "-"}

\* The repetition count {11} of every pattern's capture group.
IdLen == 11

LitVEq == <<"v", "=">>
LitSlash == <<"/">>
LitYoutuBe == <<"y", "o", "u", "t", "u", ".", "b", "e", "/">>
LitEmbed == <<"e", "m", "b", "e", "d", "/">>
LitV == <<"v", "/">>

\* patterns with its first pattern reduced to 'v=' alone (the "\/" alternative
\* dropped).
patterns_NoSlash ==
    << <<LitVEq>>, <<LitYoutuBe>>, <<LitEmbed>>, <<LitV>> >>

\* The ordered pattern list.  Each pattern is the sequence of its alternative
\* literal prefixes; every one is followed by the capture group
\* ([0-9A-Za-z_-]{11}), and the first by ".*", which matches any rest.
patterns ==
    << <<LitVEq, LitSlash>>, <<LitYoutuBe>>, <<LitEmbed>>, <<LitV>> >>

\* The literal lit stands in url at position i.
LiteralAt(lit, url, i) ==
    /\ i + Len(lit) - 1 <= Len(url)
    /\ \A k \in 1..Len(lit) : url[i + k - 1] = lit[k]

\* Alternative lit of a pattern matches in url at position i: the literal,
\* then IdLen identifier characters.
AltMatchesAt(lit, url, i) ==
    /\ LiteralAt(lit, url, i)
    /\ i + Len(lit) + IdLen - 1 <= Len(url)
    /\ \A k \in 0..(IdLen - 1) : url[i + Len(lit) + k] \in IdChars

\* The pattern matches in url at position i.
MatchesAt(pattern, url, i) ==
    \E a \in 1..Len(pattern) : AltMatchesAt(pattern[a], url, i)

\* group(1) of the match at position i: the capture after the first
\* alternative that matches there.
GroupAt(pattern, url, i) ==
    LET a == CHOOSE x \in 1..Len(pattern) :
                 /\ AltMatchesAt(pattern[x], url, i)
                 /\ \A y \in 1..(x - 1) : ~AltMatchesAt(pattern[y], url, i)
        from == i + Len(pattern[a])
    IN SubSeq(url, from, from + IdLen - 1)

\* re.search(pattern, url) has a match.
re_matches(pattern, url) ==
    \E i \in 1..Len(url) : MatchesAt(pattern, url, i)

\* re.search(pattern, url).group(1): the capture of the leftmost match, or
\* None when the pattern matches nowhere.
re_search(pattern, url) ==
    IF re_matches(pattern, url)
    THEN LET i == CHOOSE x \in 1..Len(url) :
                      /\ MatchesAt(pattern, url, x)
                      /\ \A y \in 1..(x - 1) : ~MatchesAt(pattern, url, y)
         IN PyStr(GroupAt(pattern, url, i))
    ELSE PyNone

\* The loop over patterns from index k on: the first pattern that matches
\* decides.
RECURSIVE FirstMatchFrom(_, _)
FirstMatchFrom(k, url) ==
    IF k > Len(patterns)
    THEN PyNone
    ELSE IF re_matches(patterns[k], url)
         THEN re_search(patterns[k], url)
         ELSE FirstMatchFrom(k + 1, url)

extract_video_id(url) == FirstMatchFrom(1, url)

(***************************************************************************)
(* Urls.                                                                   *)
(***************************************************************************)
TokenA == <<"d", "Q", "w", "4", "w", "9", "W", "g", "X", "c", "Q">>
TokenB == <<"a", "_", "b", "-", "0", "1", "2", "3", "X", "Y", "Z">>
SchemeHttps == <<"h", "t", "t", "p", "s", ":", "/", "/">>
HostWww == <<"w", "w", "w", ".", "y", "o", "u", "t", "u", "b", "e", ".", "c", "o", "m">>
HostShort == <<"y", "o", "u", "t", "u", ".", "b", "e">>
HostNoCookie == <<"y", "o", "u", "t", "u", "b", "e", "-", "n", "o", "c", "o", "o", "k", "i", "e", ".", "c", "o", "m">>
PathWatch == <<"/", "w", "a", "t", "c", "h", "?", "v", "=">>
PathWatchParam == <<"/", "w", "a", "t", "c", "h", "?", "a", "p", "p", "=", "d", "e", "s", "k", "t", "o", "p", "&", "v", "=">>
PathEmbed == <<"/", "e", "m", "b", "e", "d", "/">>
PathV == <<"/", "v", "/">>
PathRoot == <<"/">>
SuffixTime == <<"&", "t", "=", "4", "2", "s">>
SuffixShare == <<"?", "s", "i", "=", "a", "b", "c">>
NotAUrl == <<"n", "o", "t", "-", "a", "-", "u", "r", "l">>
ShortWord == <<"a", "b", "c", "d", "e">>
QueryMark == <<"?", "x">>

Tokens == {TokenA, TokenB}
Schemes == {<<>>, SchemeHttps}
Hosts == {HostWww, HostShort, HostNoCookie}
Suffixes == {<<>>, SuffixTime, SuffixShare}

\* The paths of the supported shapes on a host: watch?v=, /embed/ and /v/ on
\* any host, the bare /<id> on youtu.be.
ShapePaths(host) ==
    {PathWatch, PathWatchParam, PathEmbed, PathV}
        \cup (IF host = HostShort THEN {PathRoot} ELSE {})

\* The urls of a supported shape that carry token as their video identifier.
SupportedUrls(token) ==
    UNION {{scheme \o host \o path \o token \o suffix :
               scheme \in Schemes, path \in ShapePaths(host), suffix \in Suffixes} :
           host \in Hosts}

\* The pieces free-form urls are built from.
Pieces ==
    {LitSlash, LitVEq, LitV, LitEmbed, LitYoutuBe, TokenA, ShortWord, QueryMark}

RECURSIVE Flatten(_)
Flatten(parts) ==
    IF parts = <<>> THEN <<>> ELSE Head(parts) \o Flatten(Tail(parts))

FreeUrls ==
    {Flatten(parts) : parts \in UNION {[1..n -> Pieces] : n \in 0..MaxParts}}

ResolverUrls ==
    FreeUrls \cup UNION {SupportedUrls(t) : t \in Tokens} \cup {NotAUrl}

(***************************************************************************)
(* Responses.                                                              *)
(***************************************************************************)
NoResponse == [kind |-> "none"]

\* raise HTTPException(status_code=..., detail=...)
HTTPException(status_code, detail) ==
    [kind |-> "error", status |-> status_code, detail |-> detail]

\* JSONResponse(content=...), and the dict a handler returns.
JSONResponse(content) == [kind |-> "json", status |-> 200, content |-> content]

\* PlainTextResponse(content=...)
PlainTextResponse(content) == [kind |-> "text", status |-> 200, content |-> content]

\* The 400 every handler that takes a url raises when no id is extracted.
InvalidUrl == HTTPException(400, "Invalid YouTube URL")

\* "if not video_id" tested with "== ''" in its place: None passes.
IsInvalid_EmptyOnly(vid) == vid.py = "str" /\ Len(vid.val) = 0

\* "if not video_id"
IsInvalid(vid) == ~Truthy(vid)

\* A value formatted into an f-string: None reads "None".
FormatId(vid) == IF vid.py = "None" THEN <<"N", "o", "n", "e">> ELSE vid.val

WatchUrlPrefix == <<"h", "t", "t", "p", "s", ":", "/", "/", "w", "w", "w", ".", "y", "o", "u", "t", "u", "b", "e", ".", "c", "o", "m", "/", "w", "a", "t", "c", "h", "?", "v", "=">>

\* f'https://www.youtube.com/watch?v={video_id}'
WatchUrl(vid) == WatchUrlPrefix \o FormatId(vid)

(***************************************************************************)
(* The transcript collaborator (YouTubeTranscriptApi): what fetch and list *)
(* may do.                                                                 *)
(***************************************************************************)
SegmentA == [text |-> "never gonna", start |-> 0, duration |-> 2]
SegmentB == [text |-> "give you up", start |-> 2, duration |-> 3]
Segments == {SegmentA, SegmentB}

Raise(exc, msg) == [kind |-> "raise", exc |-> exc, msg |-> msg]
Return(value) == [kind |-> "ok", value |-> value]

TranscriptFailures ==
    {Raise("TranscriptsDisabled", "Subtitles are disabled for this video"),
     Raise("NoTranscriptFound", "No transcripts were found"),
     Raise("Exception", "connection reset")}

FetchOutcomes ==
    {Return(s) : s \in UNION {[1..n -> Segments] : n \in 0..MaxSegments}}
        \cup TranscriptFailures

TrackEn == [language |-> "English", language_code |-> "en",
            is_generated |-> FALSE, is_translatable |-> TRUE]
TrackEs == [language |-> "Spanish (auto-generated)", language_code |-> "es",
            is_generated |-> TRUE, is_translatable |-> FALSE]

ListOutcomes ==
    {Return(<<>>), Return(<<TrackEn>>), Return(<<TrackEn, TrackEs>>)}
        \cup TranscriptFailures

\* One invocation of a collaborator, with what it gave back.
TranscriptCall(method, vid, languages, outcome) ==
    [collaborator |-> "transcript", method |-> method, video_id |-> vid,
     languages |-> languages, outcome |-> outcome]

(***************************************************************************)
(* GET /transcript                                                         *)
(***************************************************************************)
FormatText == <<"t", "e", "x", "t">>
FormatJson == <<"j", "s", "o", "n">>
FormatJsonUpper == <<"J", "S", "O", "N">>
FormatXml == <<"x", "m", "l">>
Formats == {FormatText, FormatJson, FormatJsonUpper, FormatXml}

Langs == {PyNone, PyStr(""), PyStr("en")}

\* str.lower() on one character.
LowerChar(c) ==
    CASE c = "A" -> "a" [] c = "B" -> "b" [] c = "C" -> "c" [] c = "D" -> "d"
      [] c = "E" -> "e" [] c = "F" -> "f" [] c = "G" -> "g" [] c = "H" -> "h"
      [] c = "I" -> "i" [] c = "J" -> "j" [] c = "K" -> "k" [] c = "L" -> "l"
      [] c = "M" -> "m" [] c = "N" -> "n" [] c = "O" -> "o" [] c = "P" -> "p"
      [] c = "Q" -> "q" [] c = "R" -> "r" [] c = "S" -> "s" [] c = "T" -> "t"
      [] c = "U" -> "u" [] c = "V" -> "v" [] c = "W" -> "w" [] c = "X" -> "x"
      [] c = "Y" -> "y" [] c = "Z" -> "z" [] OTHER -> c

\* format.lower()
Lower(s) == [i \in 1..Len(s) |-> LowerChar(s[i])]

\* " ".join(texts)
RECURSIVE Join(_)
Join(texts) ==
    IF Len(texts) = 0 THEN ""
    ELSE IF Len(texts) = 1 THEN texts[1]
    ELSE texts[1] \o " " \o Join(Tail(texts))

\* [segment.text for segment in transcript]
Texts(transcript) == [i \in 1..Len(transcript) |-> transcript[i].text]

\* The body of the try block once fetch has returned, with the segments
\* listed back to front.
TranscriptSuccess_Reversed(vid, format, transcript) ==
    LET rev == [i \in 1..Len(transcript) |-> transcript[Len(transcript) + 1 - i]]
    IN IF Lower(format) = FormatJson
       THEN JSONResponse([video_id |-> vid, transcript |-> rev,
                          total_segments |-> Len(rev)])
       ELSE PlainTextResponse(Join(Texts(rev)))

\* The body of the try block once fetch has returned.
TranscriptSuccess(vid, format, transcript) ==
    IF Lower(format) = FormatJson
    THEN LET result == [i \in 1..Len(transcript) |->
                           [text |-> transcript[i].text,
                            start |-> transcript[i].start,
                            duration |-> transcript[i].duration]]
         IN JSONResponse([video_id |-> vid, transcript |-> result,
                          total_segments |-> Len(result)])
    ELSE PlainTextResponse(Join(Texts(transcript)))

\* The except clauses with the catch-all tried first.
TranscriptFailure_CatchAllFirst(failure, lang) ==
    HTTPException(500, "Error: " \o failure.msg)

\* The except clauses of get_transcript, in their order.
TranscriptFailure(failure, lang) ==
    IF failure.exc = "TranscriptsDisabled"
    THEN HTTPException(404, "Transcripts disabled for this video")
    ELSE IF failure.exc = "NoTranscriptFound"
    THEN HTTPException(404, "No transcript found for language: "
                                \o (IF Truthy(lang) THEN lang.val ELSE "default"))
    ELSE HTTPException(500, "Error: " \o failure.msg)

get_transcript ==
    /\ pc = "received"
    /\ request.op = "transcript"
    /\ LET vid == extract_video_id(request.url) IN
        /\ video_id' = vid
        /\ IF IsInvalid(vid)
           THEN /\ response' = InvalidUrl
                /\ calls' = calls
           ELSE \E outcome \in FetchOutcomes :
                /\ calls' = Append(calls,
                       TranscriptCall("fetch", vid,
                           IF Truthy(request.lang) THEN <<request.lang.val>> ELSE <<>>,
                           outcome))
                /\ response' =
                       IF outcome.kind = "ok"
                       THEN TranscriptSuccess(vid, request.format, outcome.value)
                       ELSE TranscriptFailure(outcome, request.lang)
    /\ pc' = "responded"
    /\ UNCHANGED request

(***************************************************************************)
(* GET /languages                                                          *)
(***************************************************************************)
get_available_languages ==
    /\ pc = "received"
    /\ request.op = "languages"
    /\ LET vid == extract_video_id(request.url) IN
        /\ video_id' = vid
        /\ IF IsInvalid(vid)
           THEN /\ response' = InvalidUrl
                /\ calls' = calls
           ELSE \E outcome \in ListOutcomes :
                /\ calls' = Append(calls, TranscriptCall("list", vid, <<>>, outcome))
                /\ response' =
                       IF outcome.kind = "ok"
                       THEN JSONResponse(
                                [video_id |-> vid,
                                 available_languages |->
                                     [i \in 1..Len(outcome.value) |->
                                         [language |-> outcome.value[i].language,
                                          language_code |-> outcome.value[i].language_code,
                                          is_generated |-> outcome.value[i].is_generated,
                                          is_translatable |-> outcome.value[i].is_translatable]]])
                       ELSE HTTPException(500, "Error: " \o outcome.msg)
    /\ pc' = "responded"
    /\ UNCHANGED request

(***************************************************************************)
(* The metadata/comments collaborator (yt_dlp.YoutubeDL.extract_info):     *)
(* it raises, or returns an info dict in which any key may be missing or   *)
(* hold None.                                                              *)
(***************************************************************************)
\* d with key set to value.
WithKey(d, key, value) ==
    [k \in DOMAIN d \cup {key} |-> IF k = key THEN value ELSE d[k]]

\* d with key missing ("absent"), holding None ("null") or holding the list.
WithOption(d, key, option, list) ==
    IF option = "absent" THEN d
    ELSE IF option = "null" THEN WithKey(d, key, PyNone)
    ELSE WithKey(d, key, PyList(list))

\* The i-th raw comment: odd ones are top-level comments without the
\* is_favorited and parent keys, even ones are replies.
RawComment(i) ==
    IF i % 2 = 1
    THEN [author |-> PyStr("ann"), text |-> PyStr("first"),
          like_count |-> PyInt(i), timestamp |-> PyInt(i)]
    ELSE [author |-> PyStr("bob"), text |-> PyStr("reply"),
          like_count |-> PyNone, timestamp |-> PyInt(i),
          is_favorited |-> PyBool(TRUE), parent |-> PyStr("c1")]

\* The i-th entry of a multi-item result.
RawEntry(i) ==
    [id |-> PyStr("entry"), title |-> PyStr("next up"), view_count |-> PyInt(i)]

RawComments(n) == [i \in 1..n |-> RawComment(i)]
RawEntries(n) == [i \in 1..n |-> RawEntry(i)]

\* The scalar fields every modelled info dict carries: some set, one None,
\* the rest missing.
BaseInfo ==
    [title |-> PyStr("Never Gonna Give You Up"),
     view_count |-> PyInt(7),
     like_count |-> PyNone,
     channel |-> PyStr("Rick Astley"),
     channel_follower_count |-> PyInt(5)]

ListOptions == {"absent", "null", "list"}

\* Info dicts that vary tags, categories and thumbnails.
ListFieldInfos ==
    {WithOption(
        WithOption(
            WithOption(BaseInfo, "tags", t, <<PyStr("music")>>),
            "categories", c, <<PyStr("Music"), PyStr("Pop")>>),
        "thumbnails", th, <<PyStr("https://i.ytimg.com/0.jpg")>>) :
     t \in ListOptions, c \in ListOptions, th \in ListOptions}

\* Info dicts that vary comments and entries: missing, None, or a list of
\* 0..MaxRaw items.
CollectionInfos ==
    LET opts == {<<"absent", 0>>, <<"null", 0>>} \cup {<<"list", n>> : n \in 0..MaxRaw}
    IN {WithOption(
            WithOption(BaseInfo, "comments", c[1], RawComments(c[2])),
            "entries", e[1], RawEntries(e[2])) :
        c \in opts, e \in opts}

Infos == ListFieldInfos \cup CollectionInfos

ExtractOutcomes ==
    {Return(info) : info \in Infos}
        \cup {Raise("DownloadError", "ERROR: Video unavailable")}

\* One extract_info(url, download=False) under ydl_opts; of the options, the
\* log keeps skip_download and getcomments.
ExtractCall(url, getcomments, outcome) ==
    [collaborator |-> "ytdlp", method |-> "extract_info", url |-> url,
     download |-> FALSE, skip_download |-> TRUE, getcomments |-> getcomments,
     outcome |-> outcome]

\* str(e) of the TypeError that slicing None raises.
NotSubscriptable == "'NoneType' object is not subscriptable"

(***************************************************************************)
(* GET /metadata                                                           *)
(***************************************************************************)
\* Response key -> info key, for every key read with info.get.
MetadataSource ==
    [title |-> "title", description |-> "description", duration |-> "duration",
     duration_string |-> "duration_string", view_count |-> "view_count",
     like_count |-> "like_count", upload_date |-> "upload_date",
     uploader |-> "uploader", channel |-> "channel", channel_id |-> "channel_id",
     channel_url |-> "channel_url", subscriber_count |-> "channel_follower_count",
     categories |-> "categories", tags |-> "tags", thumbnails |-> "thumbnails",
     webpage_url |-> "webpage_url"]

\* The keys read with a [] default.
ListKeys == {"categories", "tags", "thumbnails"}

\* The metadata dict built from info.
MetadataOf(vid, info) ==
    [k \in DOMAIN MetadataSource \cup {"video_id"} |->
        IF k = "video_id" THEN vid
        ELSE Get(info, MetadataSource[k],
                 IF k \in ListKeys THEN PyList(<<>>) ELSE PyNone)]

get_metadata ==
    /\ pc = "received"
    /\ request.op = "metadata"
    /\ LET vid == extract_video_id(request.url) IN
        /\ video_id' = vid
        /\ IF IsInvalid(vid)
           THEN /\ response' = InvalidUrl
                /\ calls' = calls
           ELSE \E outcome \in ExtractOutcomes :
                /\ calls' = Append(calls, ExtractCall(WatchUrl(vid), FALSE, outcome))
                /\ response' =
                       IF outcome.kind = "ok"
                       THEN JSONResponse(MetadataOf(vid, outcome.value))
                       ELSE HTTPException(500, "Error fetching metadata: " \o outcome.msg)
    /\ pc' = "responded"
    /\ UNCHANGED request

(***************************************************************************)
(* GET /comments                                                           *)
(***************************************************************************)
\* One raw comment in the shape get_comments returns.
CommentOf(comment) ==
    [author |-> Get(comment, "author", PyNone),
     text |-> Get(comment, "text", PyNone),
     like_count |-> Get(comment, "like_count", PyNone),
     timestamp |-> Get(comment, "timestamp", PyNone),
     is_favorited |-> Get(comment, "is_favorited", PyBool(FALSE)),
     parent |-> Get(comment, "parent", PyStr("root"))]

\* The try block of get_comments once extract_info has returned.
CommentsResponse(vid, max_comments, info) ==
    LET raw_comments == Get(info, "comments", PyList(<<>>)) IN
    IF raw_comments.py # "list"
    THEN HTTPException(500, "Error fetching comments: " \o NotSubscriptable)
    ELSE LET sliced == SliceTo(raw_comments.val, max_comments)
             comments == [i \in 1..Len(sliced) |-> CommentOf(sliced[i])]
         IN JSONResponse([video_id |-> vid,
                          total_comments |-> Len(comments),
                          comments |-> comments])

get_comments ==
    /\ pc = "received"
    /\ request.op = "comments"
    /\ LET vid == extract_video_id(request.url) IN
        /\ video_id' = vid
        /\ IF IsInvalid(vid)
           THEN /\ response' = InvalidUrl
                /\ calls' = calls
           ELSE \E outcome \in ExtractOutcomes :
                /\ calls' = Append(calls, ExtractCall(WatchUrl(vid), TRUE, outcome))
                /\ response' =
                       IF outcome.kind = "ok"
                       THEN CommentsResponse(vid, request.max_comments, outcome.value)
                       ELSE HTTPException(500, "Error fetching comments: " \o outcome.msg)
    /\ pc' = "responded"
    /\ UNCHANGED request

(***************************************************************************)
(* GET /related                                                            *)
(***************************************************************************)
RelatedNote == "Related videos availability depends on YouTube's API response"

\* One entry in the reduced shape get_related_videos returns.
RelatedOf(entry) ==
    [video_id |-> Get(entry, "id", PyNone),
     title |-> Get(entry, "title", PyNone),
     channel |-> Get(entry, "channel", PyNone),
     duration |-> Get(entry, "duration", PyNone),
     view_count |-> Get(entry, "view_count", PyNone)]

\* The try block of get_related_videos once extract_info has returned.
RelatedResponse(vid, limit, info) ==
    IF "entries" \in DOMAIN info /\ info["entries"].py # "list"
    THEN HTTPException(500, "Error fetching related videos: " \o NotSubscriptable)
    ELSE LET sliced == IF "entries" \in DOMAIN info
                       THEN SliceTo(info["entries"].val, limit)
                       ELSE <<>>
             related == [i \in 1..Len(sliced) |-> RelatedOf(sliced[i])]
         IN JSONResponse([video_id |-> vid,
                          related_videos |-> related,
                          note |-> RelatedNote])

get_related_videos ==
    /\ pc = "received"
    /\ request.op = "related"
    /\ LET vid == extract_video_id(request.url) IN
        /\ video_id' = vid
        /\ IF IsInvalid(vid)
           THEN /\ response' = InvalidUrl
                /\ calls' = calls
           ELSE \E outcome \in ExtractOutcomes :
                /\ calls' = Append(calls, ExtractCall(WatchUrl(vid), FALSE, outcome))
                /\ response' =
                       IF outcome.kind = "ok"
                       THEN RelatedResponse(vid, request.limit, outcome.value)
                       ELSE HTTPException(500, "Error fetching related videos: "
                                                   \o outcome.msg)
    /\ pc' = "responded"
    /\ UNCHANGED request

(***************************************************************************)
(* GET /full                                                               *)
(***************************************************************************)
\* Response key of result["metadata"] -> info key.
FullMetadataSource ==
    [title |-> "title", description |-> "description", duration |-> "duration",
     view_count |-> "view_count", like_count |-> "like_count",
     upload_date |-> "upload_date", channel |-> "channel",
     channel_id |-> "channel_id", tags |-> "tags", categories |-> "categories"]

FullMetadataOf(info) ==
    [k \in DOMAIN FullMetadataSource |->
        Get(info, FullMetadataSource[k],
            IF k \in ListKeys THEN PyList(<<>>) ELSE PyNone)]

\* One raw comment in the shape get_full_data returns.
FullCommentOf(comment) ==
    [author |-> Get(comment, "author", PyNone),
     text |-> Get(comment, "text", PyNone),
     like_count |-> Get(comment, "like_count", PyNone)]

\* The "Get metadata" try/except of get_full_data: result after it.  The
\* assignments made before an exception stay in result.
full_metadata_block(result, include_comments, max_comments, outcome) ==
    IF outcome.kind = "raise"
    THEN WithKey(result, "metadata_error", outcome.msg)
    ELSE LET info == outcome.value
             with_metadata == WithKey(result, "metadata", FullMetadataOf(info))
             raw_comments == Get(info, "comments", PyList(<<>>))
         IN IF ~include_comments
            THEN with_metadata
            ELSE IF raw_comments.py # "list"
            THEN WithKey(with_metadata, "metadata_error", NotSubscriptable)
            ELSE LET sliced == SliceTo(raw_comments.val, max_comments)
                 IN WithKey(with_metadata, "comments",
                            [i \in 1..Len(sliced) |-> FullCommentOf(sliced[i])])

\* The transcript block with a failure leaving result as it is.
full_transcript_block_NoPlaceholder(result, outcome) ==
    IF outcome.kind = "ok"
    THEN WithKey(result, "transcript", Join(Texts(outcome.value)))
    ELSE result

\* The "Get transcript" try/except of get_full_data: result after it.
full_transcript_block(result, outcome) ==
    IF outcome.kind = "ok"
    THEN WithKey(result, "transcript", Join(Texts(outcome.value)))
    ELSE WithKey(result, "transcript", "Not available")

get_full_data ==
    /\ pc = "received"
    /\ request.op = "full"
    /\ LET vid == extract_video_id(request.url) IN
        /\ video_id' = vid
        /\ IF IsInvalid(vid)
           THEN /\ response' = InvalidUrl
                /\ calls' = calls
           ELSE \E extracted \in ExtractOutcomes :
                LET result0 == [video_id |-> vid]
                    result1 == full_metadata_block(result0, request.include_comments,
                                                   request.max_comments, extracted)
                    call1 == ExtractCall(WatchUrl(vid), request.include_comments, extracted)
                IN IF request.include_transcript
                   THEN \E fetched \in FetchOutcomes :
                        /\ calls' = calls \o
                               <<call1, TranscriptCall("fetch", vid, <<>>, fetched)>>
                        /\ response' = JSONResponse(full_transcript_block(result1, fetched))
                   ELSE /\ calls' = Append(calls, call1)
                        /\ response' = JSONResponse(result1)
    /\ pc' = "responded"
    /\ UNCHANGED request

(***************************************************************************)
(* GET / and GET /health                                                   *)
(***************************************************************************)
root ==
    /\ pc = "received"
    /\ request.op = "root"
    /\ response' = JSONResponse(
           [message |-> "YouTube Data Extractor API",
            version |-> "2.0.0",
            endpoints |-> {"transcript", "metadata", "full", "comments",
                           "related", "languages"},
            docs |-> "/docs for interactive API documentation"])
    /\ pc' = "responded"
    /\ UNCHANGED <<request, video_id, calls>>

health_check ==
    /\ pc = "received"
    /\ request.op = "health"
    /\ response' = JSONResponse([status |-> "healthy", version |-> "2.0.0"])
    /\ pc' = "responded"
    /\ UNCHANGED <<request, video_id, calls>>

(***************************************************************************)
(* The server: one request at a time, nothing kept between requests.       *)
(***************************************************************************)
NoRequest == [op |-> "none"]

\* The operations that take a url.
UrlOps == {"transcript", "metadata", "comments", "related", "full", "languages"}

ValidWatchUrl == SchemeHttps \o HostWww \o PathWatch \o TokenA
ValidShortUrl == SchemeHttps \o HostShort \o PathRoot \o TokenB
RouterUrls == {ValidWatchUrl, ValidShortUrl, NotAUrl, <<>>}

\* The values of max_comments and limit.
Counts == (0 - MaxNeg)..MaxCount

\* The requests the routes accept, with their query parameters.
Requests ==
    {[op |-> "root"], [op |-> "health"]}
    \cup {[op |-> "transcript", url |-> u, format |-> f, lang |-> l] :
            u \in RouterUrls, f \in Formats, l \in Langs}
    \cup {[op |-> o, url |-> u] : o \in {"metadata", "languages"}, u \in RouterUrls}
    \cup {[op |-> "comments", url |-> u, max_comments |-> n] :
            u \in RouterUrls, n \in Counts}
    \cup {[op |-> "related", url |-> u, limit |-> n] : u \in RouterUrls, n \in Counts}
    \cup {[op |-> "full", url |-> u, include_transcript |-> t,
           include_comments |-> c, max_comments |-> n] :
            u \in RouterUrls, t \in BOOLEAN, c \in BOOLEAN, n \in Counts}

Init ==
    /\ pc = "idle"
    /\ request = NoRequest
    /\ video_id = PyNone
    /\ response = NoResponse
    /\ calls = <<>>

\* The framework routes a request to its handler.
Receive ==
    /\ pc = "idle"
    /\ request' \in Requests
    /\ pc' = "received"
    /\ UNCHANGED <<video_id, response, calls>>

\* The response is sent; the server waits for the next request with nothing
\* of this one kept.
ServeNext ==
    /\ pc = "responded"
    /\ pc' = "idle"
    /\ request' = NoRequest
    /\ video_id' = PyNone
    /\ response' = NoResponse
    /\ calls' = <<>>

Next ==
    \/ Receive
    \/ root
    \/ get_transcript
    \/ get_metadata
    \/ get_comments
    \/ get_related_videos
    \/ get_full_data
    \/ get_available_languages
    \/ health_check
    \/ ServeNext

Spec == Init /\ [][Next]_vars

(***************************************************************************)
(* The resolver on its own: Init draws a url, Resolve applies              *)
(* extract_video_id to it.                                                 *)
(***************************************************************************)
InitResolver ==
    /\ pc = "received"
    /\ request \in {[op |-> "resolve", url |-> u] : u \in ResolverUrls}
    /\ video_id = PyNone
    /\ response = NoResponse
    /\ calls = <<>>

Resolve ==
    /\ pc = "received"
    /\ request.op = "resolve"
    /\ video_id' = extract_video_id(request.url)
    /\ pc' = "resolved"
    /\ UNCHANGED <<request, response, calls>>

NextResolver == Resolve

SpecResolver == InitResolver /\ [][NextResolver]_vars

(***************************************************************************)
(* Properties.                                                             *)
(***************************************************************************)
\* A handler with a valid url has answered.
Handled(op) == pc = "responded" /\ request.op = op /\ Truthy(video_id)

\* The texts joined by single spaces in their order, built from the right.
RECURSIVE SpaceJoined(_)
SpaceJoined(texts) ==
    IF texts = <<>> THEN ""
    ELSE IF Len(texts) = 1 THEN texts[1]
    ELSE SpaceJoined(SubSeq(texts, 1, Len(texts) - 1)) \o " " \o texts[Len(texts)]

\* IdLen identifier characters stand in url from position from on.
IdRun(url, from) ==
    /\ from + IdLen - 1 <= Len(url)
    /\ \A k \in from..(from + IdLen - 1) : url[k] \in IdChars

\* The position after 'v=' or '/' at position i of url, when one of them
\* stands there followed by IdLen identifier characters; 0 otherwise.
FirstPatternCapture(url, i) ==
    IF url[i] = "/" /\ IdRun(url, i + 1) THEN i + 1
    ELSE IF i < Len(url) /\ url[i] = "v" /\ url[i + 1] = "=" /\ IdRun(url, i + 2)
    THEN i + 2
    ELSE 0

\* C1: in every operation that takes a url, a url from which
\* extract_video_id yields no identifier is answered with status 400
\* "Invalid YouTube URL", and no collaborator is invoked at any point of the
\* request.
C1_InvalidUrlRejected ==
    (/\ pc \in {"received", "responded"}
     /\ request.op \in UrlOps
     /\ extract_video_id(request.url) = PyNone)
    => /\ calls = <<>>
       /\ pc = "responded" =>
            /\ response.kind = "error"
            /\ response.status = 400
            /\ response.detail = "Invalid YouTube URL"

C1_Witness ==
    /\ pc = "responded"
    /\ request.op = "full"
    /\ request.url = NotAUrl
    /\ response.status = 400
    /\ calls = <<>>

\* C2: for every 11-character token T and every url of a supported shape
\* (watch?v=T, youtu.be/T, /embed/T, /v/T, on any host, with any surrounding
\* query parameters) extract_video_id returns exactly T.
C2_SupportedShapesResolve ==
    pc = "resolved" =>
        \A t \in Tokens :
            request.url \in SupportedUrls(t) => video_id = PyStr(t)

\* C3: a full-data request with a valid url always succeeds; when the
\* metadata collaborator fails and the transcript collaborator succeeds the
\* response carries the space-joined transcript and metadata_error, and when
\* the transcript collaborator fails and the metadata collaborator succeeds
\* it carries metadata and the transcript placeholder "Not available".
C3_FullPartialFailure ==
    Handled("full") =>
        LET content == response.content
            extracted == calls[1].outcome
        IN /\ response.kind = "json"
           /\ response.status = 200
           /\ request.include_transcript =>
                LET fetched == calls[2].outcome IN
                /\ (extracted.kind = "raise" /\ fetched.kind = "ok") =>
                     /\ "metadata_error" \in DOMAIN content
                     /\ "transcript" \in DOMAIN content
                     /\ content["transcript"] =
                            SpaceJoined([i \in 1..Len(fetched.value) |->
                                            fetched.value[i].text])
                /\ (extracted.kind = "ok" /\ fetched.kind = "raise") =>
                     /\ "metadata" \in DOMAIN content
                     /\ "transcript" \in DOMAIN content
                     /\ content["transcript"] = "Not available"

C3_Witness ==
    /\ Handled("full")
    /\ request.include_transcript
    /\ calls[1].outcome.kind = "ok"
    /\ calls[2].outcome.kind = "raise"
    /\ "metadata" \in DOMAIN response.content
    /\ response.content["transcript"] = "Not available"

\* C4: for every integer max_comments, a successful comments response holds
\* at most max_comments entries, in the collaborator's order, and
\* total_comments is the number of entries.
C4_CommentsCapped ==
    (Handled("comments") /\ response.kind = "json") =>
        LET raw == Get(calls[1].outcome.value, "comments", PyList(<<>>)).val
            comments == response.content.comments
        IN /\ Len(comments) <= request.max_comments
           /\ Len(comments) <= Len(raw)
           /\ \A i \in 1..Len(comments) : comments[i] = CommentOf(raw[i])
           /\ response.content.total_comments = Len(comments)

\* C5: for every integer limit, a successful related-videos response holds
\* at most limit entries; without an entries key the list is empty and the
\* note is present.
C5_RelatedCapped ==
    (Handled("related") /\ response.kind = "json") =>
        LET info == calls[1].outcome.value
            content == response.content
        IN /\ Len(content.related_videos) <= request.limit
           /\ "entries" \notin DOMAIN info =>
                /\ content.related_videos = <<>>
                /\ content.note = RelatedNote

\* C6: in the transcript operation with a valid url a failure of the
\* collaborator is answered by its kind: "transcripts disabled" and "no
\* transcript found" with 404, any other failure with 500 and a detail that
\* carries the failure's message; never with a success or a 400.
C6_TranscriptFailureMapping ==
    (Handled("transcript") /\ calls[1].outcome.kind = "raise") =>
        LET failure == calls[1].outcome IN
        /\ response.kind = "error"
        /\ response.status \in {404, 500}
        /\ failure.exc \in {"TranscriptsDisabled", "NoTranscriptFound"} =>
             response.status = 404
        /\ failure.exc \notin {"TranscriptsDisabled", "NoTranscriptFound"} =>
             /\ response.status = 500
             /\ response.detail = "Error: " \o failure.msg

C6_Witness ==
    /\ Handled("transcript")
    /\ calls[1].outcome.kind = "raise"
    /\ calls[1].outcome.exc = "Exception"
    /\ response.status = 500

\* C7: with format "text" the body is the segment texts in their order joined
\* by single spaces; with format "json" the transcript field lists the
\* segments in the same order and total_segments is its length.
C7_TranscriptFormats ==
    (Handled("transcript") /\ calls[1].outcome.kind = "ok") =>
        LET segments == calls[1].outcome.value IN
        /\ request.format = FormatText =>
             /\ response.kind = "text"
             /\ response.content =
                    SpaceJoined([i \in 1..Len(segments) |-> segments[i].text])
        /\ request.format = FormatJson =>
             /\ response.kind = "json"
             /\ Len(response.content.transcript) = Len(segments)
             /\ \A i \in 1..Len(segments) :
                    response.content.transcript[i] = segments[i]
             /\ response.content.total_segments = Len(response.content.transcript)

C7_Witness ==
    /\ Handled("transcript")
    /\ request.format = FormatText
    /\ calls[1].outcome.kind = "ok"
    /\ calls[1].outcome.value = <<SegmentB, SegmentA>>
    /\ response.content = "give you up never gonna"

\* C8: in the metadata operation, when tags, categories or thumbnails is
\* missing from the collaborator's result or holds None, the response is a
\* success and that field is an empty list.
C8_MissingListsEmpty ==
    (Handled("metadata") /\ calls[1].outcome.kind = "ok") =>
        LET info == calls[1].outcome.value IN
        /\ response.kind = "json"
        /\ \A k \in ListKeys :
               (k \notin DOMAIN info \/ info[k] = PyNone) =>
                   response.content[k] = PyList(<<>>)

\* C9: a successful full-data response holds exactly one of metadata and
\* metadata_error, and with include_comments it holds comments exactly when
\* it holds no metadata_error.
C9_MetadataXorError ==
    (Handled("full") /\ response.kind = "json") =>
        LET keys == DOMAIN response.content IN
        /\ ("metadata" \in keys) # ("metadata_error" \in keys)
        /\ request.include_comments =>
             (("comments" \in keys) <=> ("metadata_error" \notin keys))

\* C10: whenever one of the patterns 2-4 matches, the first pattern matches
\* too; the value returned is the capture at the leftmost place where 'v='
\* or '/' is followed by 11 identifier characters, None when there is no
\* such place; and a returned value is 11 characters of [0-9A-Za-z_-].
C10_FirstPatternDecides ==
    pc = "resolved" =>
        LET url == request.url
            places == {i \in 1..Len(url) : FirstPatternCapture(url, i) # 0}
        IN /\ (\E k \in 2..Len(patterns) : re_matches(patterns[k], url))
                  => places # {}
           /\ places = {} => video_id = PyNone
           /\ places # {} =>
                LET i == CHOOSE x \in places : \A y \in places : x <= y
                    from == FirstPatternCapture(url, i)
                IN video_id = PyStr(SubSeq(url, from, from + IdLen - 1))
           /\ video_id # PyNone =>
                /\ Len(video_id.val) = IdLen
                /\ \A k \in 1..Len(video_id.val) : video_id.val[k] \in IdChars

C10_Witness ==
    /\ pc = "resolved"
    /\ re_matches(patterns[3], request.url)
    /\ video_id # PyNone
    /\ video_id # re_search(patterns[3], request.url)

====
